---- MODULE Spec2Model ----
(***************************************************************************)
(* Lumber cut planner (construction/lumber-cuts.js and its newer revision  *)
(* with the merge phase, colour legend and ES-module import).              *)
(*                                                                         *)
(* The model covers the submit handler (validation, groupedSolve,          *)
(* naiveSolve, display) and solveCuts called on its own.  Lengths are JS   *)
(* numbers restricted to the integers plus Infinity, -Infinity and NaN.    *)
(***************************************************************************)
EXTENDS Integers, Sequences, FiniteSets, TLC

\* ------------------------------------------------------------------ bounds
\* Most cut values in one textarea / one cuts argument.
MaxCuts == 4
\* Most bins in the existingBins argument of a direct solveCuts call.
MaxBins == 2

\* ----------------------------------------------------------- JS numbers
Fin(x) == [k |-> "fin", n |-> x]
Infinity == [k |-> "inf", n |-> 1]
NegInfinity == [k |-> "inf", n |-> -1]
NaN == [k |-> "nan", n |-> 0]

isNaN(a) == a.k = "nan"

Neg(a) == IF a.k = "nan" THEN NaN ELSE [k |-> a.k, n |-> 0 - a.n]

Add(a, b) ==
    IF a.k = "nan" \/ b.k = "nan" THEN NaN
    ELSE IF a.k = "fin" /\ b.k = "fin" THEN Fin(a.n + b.n)
    ELSE IF a.k = "inf" /\ b.k = "inf" THEN (IF a.n = b.n THEN a ELSE NaN)
    ELSE IF a.k = "inf" THEN a ELSE b

Sub(a, b) == Add(a, Neg(b))

\* a < b ; every comparison with NaN is false.
Lt(a, b) ==
    /\ a.k # "nan" /\ b.k # "nan"
    /\ a # b
    /\ IF a.k = "inf" THEN a.n = -1
       ELSE IF b.k = "inf" THEN b.n = 1
       ELSE a.n < b.n

Le(a, b) == a.k # "nan" /\ b.k # "nan" /\ (a = b \/ Lt(a, b))
Gt(a, b) == Lt(b, a)
Ge(a, b) == Le(b, a)
\* a == b on numbers
NumEq(a, b) == a.k # "nan" /\ b.k # "nan" /\ a = b

\* Math.min.apply(null, s) for a non-empty sequence without NaN.
MathMin(s) ==
    LET S == {s[x] : x \in 1..Len(s)}
    IN  CHOOSE m \in S : \A y \in S : Le(m, y)

\* Math.max.apply(null, s) for a non-empty sequence without NaN.
MathMax(s) ==
    LET S == {s[x] : x \in 1..Len(s)}
    IN  CHOOSE m \in S : \A y \in S : Ge(m, y)

\* -------------------------------------------------------------- arrays
Reverse(s) == [x \in 1..Len(s) |-> s[Len(s) + 1 - x]]

RECURSIVE Concat(_)
Concat(ss) == IF ss = <<>> THEN <<>> ELSE Head(ss) \o Concat(Tail(ss))

\* Array.prototype.sort with a comparator, on [key, item] pairs whose
\* comparator is key(a) - key(b): stable, ascending; a NaN difference
\* compares as equal.
RECURSIVE InsertStable(_, _)
InsertStable(s, e) ==
    IF s = <<>> THEN <<e>>
    ELSE LET last == s[Len(s)]
         IN  IF Gt(Sub(last.key, e.key), Fin(0))
             THEN Append(InsertStable(SubSeq(s, 1, Len(s) - 1), e), last)
             ELSE Append(s, e)

RECURSIVE SortPairs(_)
SortPairs(s) ==
    IF s = <<>> THEN <<>>
    ELSE InsertStable(SortPairs(SubSeq(s, 1, Len(s) - 1)), s[Len(s)])

\* ----------------------------------------------------------------- Cut
\* class Cut; id stands for the object's identity.  cls is "Cut" for an
\* instance of Cut and "Object" for any other object with the same fields.
Cut(value, partName, id) ==
    [cls |-> "Cut", value |-> value, partName |-> partName, id |-> id]

\* A sort on the wrong field: by part name.
SortCutsByPartName(cuts) ==
    LET rank(c) == IF c.partName = "a" THEN Fin(1)
                   ELSE IF c.partName = "b" THEN Fin(2) ELSE Fin(3)
        pairs == [x \in 1..Len(cuts) |-> [key |-> rank(cuts[x]), item |-> cuts[x]]]
        sorted == SortPairs(pairs)
    IN  Reverse([x \in 1..Len(sorted) |-> sorted[x].item])

\* A sort without the reverse.
SortCutsAsc(cuts) ==
    LET pairs == [x \in 1..Len(cuts) |-> [key |-> cuts[x].value, item |-> cuts[x]]]
        sorted == SortPairs(pairs)
    IN  [x \in 1..Len(sorted) |-> sorted[x].item]

\* cuts.sort((a,b) => a.value - b.value).reverse()
sortCutsDesc(cuts) ==
    LET pairs == [x \in 1..Len(cuts) |-> [key |-> cuts[x].value, item |-> cuts[x]]]
        sorted == SortPairs(pairs)
    IN  Reverse([x \in 1..Len(sorted) |-> sorted[x].item])

\* myList == [] is never true of two arrays, so this is the reduce.
RECURSIVE sumList(_)
sumList(myList) ==
    IF myList = <<>> THEN Fin(0)
    ELSE Add(sumList(SubSeq(myList, 1, Len(myList) - 1)), myList[Len(myList)])

sumCutList(cutList) == sumList([x \in 1..Len(cutList) |-> cutList[x].value])

getBinRemainder(bin, lumberLen) == Sub(lumberLen, sumCutList(bin))

\* ------------------------------------------------------------ solveCuts
\* bins ?? [[]] : the argument is [given, list].
NoBins == [given |-> FALSE, list |-> <<>>]
GivenBins(list) == [given |-> TRUE, list |-> list]

\* A default taken for an empty list as well.
InitialBinsIfNonEmpty(b) == IF b.given /\ b.list # <<>> THEN b.list ELSE << <<>> >>

InitialBins(b) == IF b.given THEN b.list ELSE << <<>> >>

\* The remainders that can take nextCut (lines 216-220).
UsableRemainders(bins, nextCut, lumberLen) ==
    SelectSeq([x \in 1..Len(bins) |-> getBinRemainder(bins[x], lumberLen)],
              LAMBDA val : Ge(val, nextCut.value))

\* First fit: the cut goes to the first bin with room.
PlaceCutFirstFit(bins, nextCut, lumberLen) ==
    LET remainders == UsableRemainders(bins, nextCut, lumberLen)
    IN  IF Len(remainders) = 0
        THEN Append(bins, <<nextCut>>)
        ELSE LET first == CHOOSE x \in 1..Len(bins) :
                              /\ Ge(getBinRemainder(bins[x], lumberLen), nextCut.value)
                              /\ \A y \in 1..(x - 1) :
                                    ~Ge(getBinRemainder(bins[y], lumberLen), nextCut.value)
             IN  [bins EXCEPT ![first] = Append(bins[first], nextCut)]

\* The fullest bin, without the filter on the remainders.
PlaceCutNoFitCheck(bins, nextCut, lumberLen) ==
    LET all == [x \in 1..Len(bins) |-> getBinRemainder(bins[x], lumberLen)]
    IN  IF Len(all) = 0
        THEN Append(bins, <<nextCut>>)
        ELSE LET minRemainder == MathMin(all)
             IN  [x \in 1..Len(bins) |->
                    IF NumEq(getBinRemainder(bins[x], lumberLen), minRemainder)
                    THEN Append(bins[x], nextCut)
                    ELSE bins[x]]

\* A new piece of lumber put in front of the others.
PlaceCutNewBinFirst(bins, nextCut, lumberLen) ==
    LET remainders == UsableRemainders(bins, nextCut, lumberLen)
    IN  IF Len(remainders) = 0
        THEN <<(<<nextCut>>)>> \o bins
        ELSE LET minUsableRemainder == MathMin(remainders)
             IN  [x \in 1..Len(bins) |->
                    IF NumEq(getBinRemainder(bins[x], lumberLen), minUsableRemainder)
                    THEN Append(bins[x], nextCut)
                    ELSE bins[x]]

\* The fullest bin of all, whether or not the cut fits it.
PlaceCutFullestOnly(bins, nextCut, lumberLen) ==
    LET all == [x \in 1..Len(bins) |-> getBinRemainder(bins[x], lumberLen)]
        remainders == UsableRemainders(bins, nextCut, lumberLen)
    IN  IF Len(remainders) = 0
        THEN Append(bins, <<nextCut>>)
        ELSE LET minRemainder == MathMin(all)
             IN  [x \in 1..Len(bins) |->
                    IF /\ NumEq(getBinRemainder(bins[x], lumberLen), minRemainder)
                       /\ Ge(minRemainder, nextCut.value)
                    THEN Append(bins[x], nextCut)
                    ELSE bins[x]]

\* One iteration of the loop over the cuts (lines 212-234).
PlaceCut(bins, nextCut, lumberLen) ==
    LET remainders == UsableRemainders(bins, nextCut, lumberLen)
    IN  IF Len(remainders) = 0
        THEN Append(bins, <<nextCut>>)
        ELSE LET minUsableRemainder == MathMin(remainders)
             IN  [x \in 1..Len(bins) |->
                    IF NumEq(getBinRemainder(bins[x], lumberLen), minUsableRemainder)
                    THEN Append(bins[x], nextCut)
                    ELSE bins[x]]

\* The loop over cuts[from..], for a list of Cut instances.
RECURSIVE PlaceAll(_, _, _)
PlaceAll(bins, cuts, lumberLen) ==
    IF cuts = <<>> THEN bins
    ELSE PlaceAll(PlaceCut(bins, Head(cuts), lumberLen), Tail(cuts), lumberLen)

\* solveCuts(cuts, lumberLen, bins) as a function of its arguments, for a
\* list of Cut instances.
solveCuts(cuts, lumberLen, b) ==
    PlaceAll(InitialBins(b), sortCutsDesc(cuts), lumberLen)

\* ------------------------------------------------- the text of the fields
\* Texts the numeric fields and the cut values are drawn from.  Only the
\* length field is given a text with a "." in it.
DecimalTexts == {"1.5"}
LenTexts == {"x", "0", "1", "1.5"}
MarginTexts == {"x", "-1", "0", "7", "Infinity"}
WidthTexts == {"x", "0", "1", "Infinity"}
CutTexts == {"x", "0", "1", "3", "7"}
PartNames == {"a", "b", "c"}

NumeralRange == -1..12

parseNumeral(s) ==
    IF \E v \in NumeralRange : ToString(v) = s
    THEN Fin(CHOOSE v \in NumeralRange : ToString(v) = s)
    ELSE NaN

\* parseFloat on the texts above.
parseFloat(s) ==
    IF s = "Infinity" THEN Infinity
    ELSE IF s = "-Infinity" THEN NegInfinity
    ELSE parseNumeral(s)

\* parseInt on the texts above ("Infinity" has no leading digit).
parseInt(s) == parseNumeral(s)

Mul(a, b) ==
    IF a.k = "nan" \/ b.k = "nan" THEN NaN
    ELSE IF a.k = "fin" /\ b.k = "fin" THEN Fin(a.n * b.n)
    ELSE IF a.n = 0 \/ b.n = 0 THEN NaN
    ELSE IF (a.n > 0) = (b.n > 0) THEN Infinity ELSE NegInfinity

InchesPerFoot == 12

\* getAndValidateInputs up to the call of parseCuts (lines 36-66).
\* undefined (a length with a ".") is NaN to isNaN.
ValidateFields(lenText, marginText, widthText) ==
    LET len0 == IF lenText \in DecimalTexts THEN NaN ELSE parseInt(lenText)
        lumberMargin == parseFloat(marginText)
        cutWidth == parseFloat(widthText)
        len1 == Mul(len0, Fin(InchesPerFoot))
        result(ok, msg) ==
            [valid |-> ok, error |-> msg, lumberLen |-> len1,
             effectiveLumberLen |-> Sub(len1, Sub(lumberMargin, cutWidth)),
             cutWidth |-> cutWidth, lumberMargin |-> lumberMargin]
    IN  IF isNaN(len0) \/ Le(len0, Fin(0))
        THEN result(FALSE, "Lumber length must be a positive integer.")
        ELSE IF isNaN(lumberMargin) \/ Lt(lumberMargin, Fin(0))
        THEN result(FALSE, "Lumber error margin must be a non-negative number.")
        ELSE IF isNaN(cutWidth) \/ Le(cutWidth, Fin(0))
        THEN result(FALSE, "Blade width must be a positive number.")
        ELSE IF Lt(lumberMargin, cutWidth)
        THEN result(FALSE, "Lumber error margin cannot be less than blade width.")
        ELSE result(TRUE, "")

\* A line of the textarea: "key:val" (colon) or "val", val a comma list.
Line(colon, key, val) == [colon |-> colon, key |-> key, val |-> val]

\* key in cuts
HasKey(obj, key) == \E x \in 1..Len(obj) : obj[x].key = key

ValuesOf(obj, key) ==
    LET x == CHOOSE y \in 1..Len(obj) : obj[y].key = key IN obj[x].list

\* parseCutsSublist (lines 133-148): the parsed values, or <<>> on an error.
\* split(",") never has length 0.
parseCutsSublist(val) ==
    LET sublist == [x \in 1..Len(val) |-> parseFloat(val[x])]
    IN  IF \E x \in 1..Len(sublist) : isNaN(sublist[x]) \/ Le(sublist[x], Fin(0))
        THEN <<>>
        ELSE sublist

\* The body of parseCuts's loop for one line (lines 88-119).
parseCutsLine(obj, line, cutWidth, effectiveLumberLen) ==
    LET subl0 == parseCutsSublist(line.val)
        subl == [x \in 1..Len(subl0) |-> Add(subl0[x], cutWidth)]
    IN  IF line.colon /\ HasKey(obj, line.key)
        THEN [ok |-> FALSE, error |-> "Part names should not repeat", obj |-> obj]
        ELSE IF subl0 = <<>>
        THEN [ok |-> FALSE, error |-> "All cuts should be positive numbers", obj |-> obj]
        ELSE IF Gt(MathMax(subl), effectiveLumberLen)
        THEN [ok |-> FALSE,
              error |-> "Cuts cannot be longer than the lumber itself (accounting for error margins)",
              obj |-> obj]
        ELSE IF ~line.colon
        THEN [ok |-> TRUE, error |-> "",
              obj |-> [x \in 1..Len(obj) |->
                         IF obj[x].key = "false"
                         THEN [key |-> "false", list |-> obj[x].list \o subl]
                         ELSE obj[x]]]
        ELSE [ok |-> TRUE, error |-> "",
              obj |-> Append(obj, [key |-> line.key, list |-> subl])]

\* ------------------------------------------------------------ strategies
\* inputs.cuts[partName].map((val) => new Cut(val, partName))
CutsOfPart(obj, partName) ==
    LET list == ValuesOf(obj, partName)
    IN  [x \in 1..Len(list) |-> Cut(list[x], partName, x)]

\* Object.keys(inputs.cuts) / for (const partName in inputs.cuts): the part
\* names are not integer-like, so the keys come in insertion order.
Keys(obj) == [x \in 1..Len(obj) |-> obj[x].key]

\* Number(x) of a number or of an object ("[object Object]").
ToNumber(x) == IF "k" \in DOMAIN x THEN x ELSE NaN

\* sortDesc (lines 125-131): myList.sort(compareNumbers).reverse()
sortDesc(myList) ==
    LET pairs == [x \in 1..Len(myList) |-> [key |-> ToNumber(myList[x]), item |-> myList[x]]]
        sorted == SortPairs(pairs)
    IN  Reverse([x \in 1..Len(sorted) |-> sorted[x].item])

\* A flattening that leaves the miscellaneous cuts out.
FlattenedValsNamedOnly(obj) ==
    sortDesc(Concat([x \in 1..Len(obj) |->
                        IF obj[x].key = "false" THEN <<>> ELSE CutsOfPart(obj, obj[x].key)]))

\* naiveSolve's flattenedVals (lines 170-176).
FlattenedVals(obj) ==
    sortDesc(Concat([x \in 1..Len(obj) |-> CutsOfPart(obj, obj[x].key)]))

\* bins.sort((a,b) => sumCutList(a) - sumCutList(b)).reverse() (line 275)
SortBinsDesc(bs) ==
    LET pairs == [x \in 1..Len(bs) |-> [key |-> sumCutList(bs[x]), item |-> bs[x]]]
        sorted == SortPairs(pairs)
    IN  Reverse([x \in 1..Len(sorted) |-> sorted[x].item])

\* The j a merge into bins[idx] may take (line 283).
CanMerge(bs, idx, j, len) ==
    Ge(getBinRemainder(bs[j], len), Sub(len, getBinRemainder(bs[idx], len)))

RemoveAt(s, j) == SubSeq(s, 1, j - 1) \o SubSeq(s, j + 1, Len(s))

\* A scan that takes the last j that can merge.
MergeLastAt(bs, idx, len) ==
    IF \E j \in (idx + 1)..Len(bs) : CanMerge(bs, idx, j, len)
    THEN LET j0 == CHOOSE j \in (idx + 1)..Len(bs) :
                     /\ CanMerge(bs, idx, j, len)
                     /\ \A j1 \in (j + 1)..Len(bs) : ~CanMerge(bs, idx, j1, len)
         IN  RemoveAt([bs EXCEPT ![idx] = bs[idx] \o bs[j0]], j0)
    ELSE bs

\* The inner loop over j for one i (lines 279-291); idx is i + 1.
MergeAt(bs, idx, len) ==
    IF \E j \in (idx + 1)..Len(bs) : CanMerge(bs, idx, j, len)
    THEN LET j0 == CHOOSE j \in (idx + 1)..Len(bs) :
                     /\ CanMerge(bs, idx, j, len)
                     /\ \A j1 \in (idx + 1)..(j - 1) : ~CanMerge(bs, idx, j1, len)
         IN  RemoveAt([bs EXCEPT ![idx] = bs[idx] \o bs[j0]], j0)
    ELSE bs

\* displaySolution: the heading's count and each board's line.
Display(title, bs, inp) ==
    [title |-> title, pieces |-> Len(bs),
     boards |-> [x \in 1..Len(bs) |->
                   [shown |-> [y \in 1..Len(bs[x]) |-> Sub(bs[x][y].value, inp.cutWidth)],
                    leftOver |-> Sub(inp.lumberLen, sumCutList(bs[x]))]]]

\* ---------------------------------------------------------------- state
VARIABLES
    pc,          \* position of the running code
    errors,      \* the messages in #errors
    output,      \* the entries appended to #output
    fields,      \* locals of getAndValidateInputs: lumberLen, effectiveLumberLen, ...
    cutsObj,     \* parseCuts: the cuts object built so far, keys in insertion order
    used,        \* parseCuts: the cut values read from the textarea so far
    inputs,      \* the click handler's inputs
    partsLeft,   \* groupedSolve: the named parts still to solve
    gBins,       \* groupedSolve: bins
    i,           \* groupedSolve: the merge loop's i
    solution,    \* naiveSolve: solution
    ctx,         \* who called solveCuts: "call", "part", "misc", "naive"
    args,        \* solveCuts: the arguments as they were passed
    cuts,        \* solveCuts: the array passed as cuts (sorted in place)
    lumberLen,   \* solveCuts: lumberLen
    bins,        \* solveCuts: bins
    n            \* solveCuts: the cuts the loop has been through

vars == <<pc, errors, output, fields, cutsObj, used, inputs, partsLeft, gBins, i,
          solution, ctx, args, cuts, lumberLen, bins, n>>

handlerVars == <<errors, output, fields, cutsObj, used, inputs, partsLeft, gBins, i,
                 solution>>

\* ------------------------------------------- solveCuts called on its own
\* The usable length of a direct call.
CallLumberLen == 6

\* The values of the cuts of a direct call.
CallValues == {2, 4}

RECURSIVE SeqsUpTo(_, _)
SeqsUpTo(S, len) ==
    IF len = 0 THEN {<<>>}
    ELSE LET shorter == SeqsUpTo(S, len - 1)
         IN  shorter \cup {Append(s, e) : s \in {t \in shorter : Len(t) = len - 1}, e \in S}

\* What a direct call may hold at one index: a Cut, or an object that is
\* not a Cut.
CallItems ==
    {[cls |-> "Cut", value |-> Fin(v)] : v \in CallValues}
        \cup {[cls |-> "Object", value |-> Fin(2)]}

CallCuts ==
    {[x \in 1..Len(s) |->
        [cls |-> s[x].cls, value |-> s[x].value, partName |-> "call", id |-> x]] :
     s \in SeqsUpTo(CallItems, MaxCuts)}

\* Bins a caller may pass: each holds cuts of an earlier run and fits.
CallOldBins ==
    { <<>>, <<Cut(Fin(2), "old", 1)>>, <<Cut(Fin(4), "old", 1)>> }

CallBins ==
    {NoBins} \cup
    {GivenBins([x \in 1..Len(s) |->
        [y \in 1..Len(s[x]) |-> Cut(s[x][y].value, "old", x)]]) :
     s \in SeqsUpTo(CallOldBins, MaxBins)}

Init ==
    /\ pc = "ready"
    /\ errors = <<>>
    /\ output = <<>>
    /\ fields = [valid |-> FALSE]
    /\ cutsObj = <<>>
    /\ used = 0
    /\ inputs = [kind |-> "none"]
    /\ partsLeft = <<>>
    /\ gBins = <<>>
    /\ i = 0
    /\ solution = <<>>
    /\ ctx = "none"
    /\ args = [cuts |-> <<>>, lumberLen |-> NaN, bins |-> NoBins]
    /\ cuts = <<>>
    /\ lumberLen = NaN
    /\ bins = <<>>
    /\ n = 0

\* Entry of solveCuts (lines 198-204): bins ?? [[]], then the sort of the
\* caller's array in place.
EnterSolveCuts(who, c, len, b) ==
    /\ ctx' = who
    /\ args' = [cuts |-> c, lumberLen |-> len, bins |-> b]
    /\ cuts' = sortCutsDesc(c)
    /\ lumberLen' = len
    /\ bins' = InitialBins(b)
    /\ n' = 0
    /\ pc' = "solveCuts"

\* A caller other than the page calls solveCuts(cuts, lumberLen, bins).
Call ==
    /\ pc = "ready"
    /\ \E c \in CallCuts, b \in CallBins :
          EnterSolveCuts("call", c, Fin(CallLumberLen), b)
    /\ UNCHANGED handlerVars

\* One iteration of for (const nextCut of cuts) (lines 206-236).
PackStep ==
    /\ pc = "solveCuts"
    /\ n < Len(cuts)
    /\ LET nextCut == cuts[n + 1]
       IN  IF nextCut.cls # "Cut"
           THEN /\ pc' = "Error: Expected instance of Cut"
                /\ UNCHANGED <<bins, n>>
           ELSE /\ bins' = PlaceCut(bins, nextCut, lumberLen)
                /\ n' = n + 1
                /\ pc' = pc
    /\ gBins' = IF ctx = "misc" THEN bins' ELSE gBins
    /\ UNCHANGED <<errors, output, fields, cutsObj, used, inputs, partsLeft, i,
                   solution, ctx, args, cuts, lumberLen>>

\* ------------------------------------------------------- the submit click
\* The lines a textarea may go on with when it has room for m more values.
Lines(m) ==
    {Line(FALSE, "false", v) : v \in SeqsUpTo(CutTexts, m) \ {<<>>}}
        \cup {Line(TRUE, k, v) : k \in PartNames, v \in SeqsUpTo(CutTexts, m) \ {<<>>}}

\* The click handler up to parseCuts's first line (lines 369, 36-69, 85-86).
Click ==
    /\ pc = "ready"
    /\ \E lenText \in LenTexts, marginText \in MarginTexts, widthText \in WidthTexts :
          LET f == ValidateFields(lenText, marginText, widthText)
          IN  /\ fields' = f
              /\ output' = <<>>
              /\ IF f.valid
                 THEN /\ errors' = <<>>
                      /\ cutsObj' = <<[key |-> "false", list |-> <<>>]>>
                      /\ inputs' = inputs
                      /\ pc' = "parseCuts"
                 ELSE /\ errors' = <<f.error>>
                      /\ cutsObj' = cutsObj
                      /\ inputs' = [kind |-> "false"]
                      /\ pc' = "validated"
    /\ UNCHANGED <<used, partsLeft, gBins, i, solution, ctx, args, cuts, lumberLen,
                   bins, n>>

\* parseCuts: one line of the textarea (lines 87-121).
ParseLine ==
    /\ pc = "parseCuts"
    /\ \E line \in Lines(MaxCuts - used) :
          LET r == parseCutsLine(cutsObj, line, fields.cutWidth, fields.effectiveLumberLen)
          IN  IF r.ok
              THEN /\ cutsObj' = r.obj
                   /\ used' = used + Len(line.val)
                   /\ UNCHANGED <<pc, errors, inputs>>
              ELSE /\ errors' = Append(errors, r.error)
                   /\ inputs' = [kind |-> "false"]
                   /\ pc' = "validated"
                   /\ UNCHANGED <<cutsObj, used>>
    /\ UNCHANGED <<output, fields, partsLeft, gBins, i, solution, ctx, args, cuts,
                   lumberLen, bins, n>>

\* parseCuts after the last line, and getAndValidateInputs's return
\* (lines 122, 70-81).  A textarea has at least one line.
ParseEnd ==
    /\ pc = "parseCuts"
    /\ used > 0
    /\ inputs' = [kind |-> "object", lumberLen |-> fields.lumberLen,
                  effectiveLumberLen |-> fields.effectiveLumberLen,
                  cutWidth |-> fields.cutWidth, lumberMargin |-> fields.lumberMargin,
                  cuts |-> cutsObj, colors |-> <<>>]
    /\ pc' = "validated"
    /\ UNCHANGED <<errors, output, fields, cutsObj, used, partsLeft, gBins, i, solution,
                   ctx, args, cuts, lumberLen, bins, n>>

\* if (inputs === undefined) return; inputs.colors = ...; groupedSolve(inputs)
\* (lines 373-386).  getAndValidateInputs returns false or an object, never
\* undefined.  Setting a property of false throws in strict code (the
\* revision that imports color-convert.js is an ES module) and does nothing
\* in a classic script (construction/lumber-cuts.js has no module syntax).
AssignColors ==
    /\ pc = "validated"
    /\ \E strict \in BOOLEAN :
          IF inputs.kind = "undefined"
          THEN /\ pc' = "done"
               /\ inputs' = inputs
          ELSE IF inputs.kind = "false"
          THEN /\ pc' = IF strict THEN "TypeError: Cannot create property 'colors' on boolean 'false'"
                        ELSE "groupedSolve"
               /\ inputs' = inputs
          ELSE /\ pc' = "groupedSolve"
               /\ inputs' = [inputs EXCEPT !.colors =
                                <<"false">> \o SelectSeq(Keys(inputs.cuts), LAMBDA k : k # "false")]
    /\ UNCHANGED <<errors, output, fields, cutsObj, used, partsLeft, gBins, i, solution,
                   ctx, args, cuts, lumberLen, bins, n>>

\* groupedSolve up to its loop over the parts (lines 246-256).  Of false,
\* inputs.cuts is undefined: the loop has nothing to go through, and
\* inputs.cuts["false"] (line 296) throws.
GroupedSolve ==
    /\ pc = "groupedSolve"
    /\ IF inputs.kind = "false"
       THEN /\ pc' = "TypeError: Cannot read properties of undefined (reading 'false')"
            /\ UNCHANGED <<partsLeft, gBins>>
       ELSE /\ partsLeft' = SelectSeq(Keys(inputs.cuts), LAMBDA k : k # "false")
            /\ gBins' = <<>>
            /\ pc' = "parts"
    /\ UNCHANGED <<errors, output, fields, cutsObj, used, inputs, i, solution, ctx, args,
                   cuts, lumberLen, bins, n>>

\* The call of solveCuts for the next named part (lines 256-264).
GroupedPart ==
    /\ pc = "parts"
    /\ partsLeft # <<>>
    /\ EnterSolveCuts("part", CutsOfPart(inputs.cuts, Head(partsLeft)),
                      inputs.effectiveLumberLen, NoBins)
    /\ UNCHANGED handlerVars

\* The sort before the merge loop (line 275).
MergeSort ==
    /\ pc = "parts"
    /\ partsLeft = <<>>
    /\ gBins' = SortBinsDesc(gBins)
    /\ i' = 0
    /\ pc' = "merge"
    /\ UNCHANGED <<errors, output, fields, cutsObj, used, inputs, partsLeft, solution,
                   ctx, args, cuts, lumberLen, bins, n>>

\* One iteration of the merge loop over i (lines 278-292).
MergeStep ==
    /\ pc = "merge"
    /\ i < Len(gBins) - 1
    /\ gBins' = MergeAt(gBins, i + 1, inputs.effectiveLumberLen)
    /\ i' = i + 1
    /\ UNCHANGED <<pc, errors, output, fields, cutsObj, used, inputs, partsLeft, solution,
                   ctx, args, cuts, lumberLen, bins, n>>

\* The call of solveCuts for the miscellaneous cuts, on groupedSolve's own
\* bins array (lines 295-299).
GroupedMisc ==
    /\ pc = "merge"
    /\ ~(i < Len(gBins) - 1)
    /\ EnterSolveCuts("misc", CutsOfPart(inputs.cuts, "false"),
                      inputs.effectiveLumberLen, GivenBins(gBins))
    /\ UNCHANGED handlerVars

\* naiveSolve up to its call of solveCuts (lines 170-178).
NaiveSolve ==
    /\ pc = "naiveSolve"
    /\ EnterSolveCuts("naive", FlattenedVals(inputs.cuts), inputs.effectiveLumberLen, NoBins)
    /\ UNCHANGED handlerVars

\* return bins (line 237), and the caller up to its next call.
PackReturn ==
    /\ pc = "solveCuts"
    /\ n = Len(cuts)
    /\ CASE ctx = "call" ->
              /\ pc' = "returned"
              /\ UNCHANGED <<output, inputs, partsLeft, gBins, solution>>
         [] ctx = "part" ->
              \* bins = bins.concat(subSoln) (line 266)
              /\ gBins' = gBins \o bins
              /\ partsLeft' = Tail(partsLeft)
              /\ pc' = "parts"
              /\ UNCHANGED <<output, inputs, solution>>
         [] ctx = "misc" ->
              \* lines 295, 302-307, then naiveSolve(inputs) (line 387)
              /\ gBins' = bins
              /\ output' = Append(output,
                    Display("Solution that prioritizes part groupings", bins, inputs))
              /\ pc' = "naiveSolve"
              /\ UNCHANGED <<inputs, partsLeft, solution>>
         [] ctx = "naive" ->
              \* lines 178-188, then displayLegend(inputs.colors) (lines 390, 336-346)
              /\ solution' = bins
              /\ inputs' = [inputs EXCEPT !.colors =
                               Tail(inputs.colors) \o <<"miscellaneous parts">>]
              /\ output' = output \o
                    << Display("Solution that ignores part groupings", bins, inputs),
                       [title |-> "Color legend",
                        names |-> Tail(inputs.colors) \o <<"miscellaneous parts">>] >>
              /\ pc' = "done"
              /\ UNCHANGED <<partsLeft, gBins>>
    /\ UNCHANGED <<errors, fields, cutsObj, used, i, ctx, args, cuts, lumberLen, bins, n>>

Next ==
    \/ Call
    \/ PackStep
    \/ PackReturn
    \/ Click
    \/ ParseLine
    \/ ParseEnd
    \/ AssignColors
    \/ GroupedSolve
    \/ GroupedPart
    \/ MergeSort
    \/ MergeStep
    \/ GroupedMisc
    \/ NaiveSolve

Spec == Init /\ [][Next]_vars

\* ================================================================ claims
\* solveCuts is at its return statement: bins is what it returns, args
\* what it was called with.
Returning == pc = "solveCuts" /\ n = Len(cuts)

\* Every occurrence of object c in the bins, counted with multiplicity.
Occurrences(bs, c) ==
    Cardinality(UNION {{<<x, y>> : y \in {z \in 1..Len(bs[x]) : bs[x][z] = c}} :
                       x \in 1..Len(bs)})

\* solveCuts's precondition: every cut fits a board, every bin passed in
\* is within the usable length.
PackPre ==
    /\ \A x \in 1..Len(args.cuts) : Le(args.cuts[x].value, args.lumberLen)
    /\ \A x \in 1..Len(args.bins.list) :
          Ge(getBinRemainder(args.bins.list[x], args.lumberLen), Fin(0))

\* A CutRequest whose padded cuts all fit the usable length.
ValidRequest ==
    /\ inputs.kind = "object"
    /\ \A x \in 1..Len(inputs.cuts) : \A y \in 1..Len(inputs.cuts[x].list) :
          Le(inputs.cuts[x].list[y], inputs.effectiveLumberLen)

\* C1: when solveCuts returns, every cut of its cuts argument is in exactly
\* one bin of the returned list, exactly once.
C1_EveryCutExactlyOnce ==
    (Returning /\ PackPre) =>
        \A x \in 1..Len(args.cuts) : Occurrences(bins, args.cuts[x]) = 1

\* C2: under the precondition, no bin of solveCuts and no bin of
\* groupedSolve (per-part packing, merge, miscellaneous packing) ever holds
\* more than the usable length.
C2_CapacityInvariant ==
    /\ (ctx # "none" /\ PackPre) =>
          \A x \in 1..Len(bins) : Ge(getBinRemainder(bins[x], lumberLen), Fin(0))
    /\ ValidRequest =>
          \A x \in 1..Len(gBins) :
             Ge(getBinRemainder(gBins[x], inputs.effectiveLumberLen), Fin(0))

PartNamesIn(bin) == {bin[y].partName : y \in 1..Len(bin)}

\* C2's case: a miscellaneous cut has been added to a bin that the merge
\* phase made of two parts' bins.
C2_Witness ==
    /\ ValidRequest /\ PackPre
    /\ ctx = "misc" /\ pc = "solveCuts" /\ n >= 1
    /\ \E x \in 1..Len(bins) :
          /\ "false" \in PartNamesIn(bins[x])
          /\ Cardinality(PartNamesIn(bins[x]) \ {"false"}) >= 2

NamedParts == SelectSeq(Keys(inputs.cuts), LAMBDA k : k # "false")

C4_NoStrategyAfterFailedValidation ==
    inputs.kind = "false" =>
        /\ errors # <<>>
        /\ pc \notin {"groupedSolve", "parts", "merge", "solveCuts", "naiveSolve"}

\* C5 as stated: when solveCuts returns, the list passed as cuts holds the
\* same elements in the same order as when it was passed.
C5_CallerListUntouched ==
    Returning => cuts = args.cuts

\* Where object c stood in the list as it was passed.
PassedAt(c) == CHOOSE x \in 1..Len(args.cuts) : args.cuts[x] = c

\* C5 as amended: solveCuts sorts the list it is passed in place: when it
\* returns, that list holds the same elements in descending order of
\* length, equal-length cuts in the reverse of the order they were passed
\* in.
C5_CallerListSortedInPlace ==
    Returning =>
        /\ Len(cuts) = Len(args.cuts)
        /\ \A x \in 1..Len(args.cuts) :
              Cardinality({y \in 1..Len(cuts) : cuts[y] = args.cuts[x]}) = 1
        /\ \A x \in 1..Len(cuts) : \A y \in (x + 1)..Len(cuts) :
              /\ Ge(cuts[x].value, cuts[y].value)
              /\ NumEq(cuts[x].value, cuts[y].value) => PassedAt(cuts[x]) > PassedAt(cuts[y])

\* C5's case: solveCuts returns from a call whose list was not in
\* descending order.
C5_Witness ==
    /\ Returning /\ Len(cuts) >= 3
    /\ cuts # args.cuts
    /\ \E x \in 1..(Len(args.cuts) - 1) : Lt(args.cuts[x].value, args.cuts[x + 1].value)

\* C6: solveCuts called with an empty cuts list returns existingBins as it
\* was passed, and one empty bin when none was passed.
C6_EmptyCuts ==
    (Returning /\ args.cuts = <<>>) =>
        IF args.bins.given THEN bins = args.bins.list ELSE bins = << <<>> >>

\* C6's case: solveCuts returns from a call with no cuts and an empty
\* existingBins list.
C6_Witness ==
    /\ Returning /\ args.cuts = <<>>
    /\ args.bins.given /\ args.bins.list = <<>>
    /\ bins = <<>>

\* C7: every CutRequest validation yields has 0 < effectiveLumberLen <=
\* lumberLen and every padded cut of every part <= effectiveLumberLen.
C7_ValidatedRequestInvariant ==
    inputs.kind = "object" =>
        /\ Lt(Fin(0), inputs.effectiveLumberLen)
        /\ Le(inputs.effectiveLumberLen, inputs.lumberLen)
        /\ \A x \in 1..Len(inputs.cuts) : \A y \in 1..Len(inputs.cuts[x].list) :
              Le(inputs.cuts[x].list[y], inputs.effectiveLumberLen)

SwapAt(s, p, q) == [s EXCEPT ![p] = s[q], ![q] = s[p]]

\* The bins as sequences of cut lengths.
Lengths(bs) == [x \in 1..Len(bs) |-> [y \in 1..Len(bs[x]) |-> bs[x][y].value]]

\* C8: exchanging two equal-length cuts of the cuts argument (any
\* reordering of equal-length cuts is a sequence of such exchanges), with
\* the same usable length and existingBins, gives the same bins: as many,
\* and bin by bin the same sequence of cut lengths.
C8_EqualLengthOrderInsensitive ==
    Returning =>
        \A p \in 1..Len(args.cuts) : \A q \in (p + 1)..Len(args.cuts) :
            NumEq(args.cuts[p].value, args.cuts[q].value) =>
                Lengths(solveCuts(SwapAt(args.cuts, p, q), args.lumberLen, args.bins))
                    = Lengths(bins)

\* C8's case: solveCuts returns several bins for a list in which two
\* equal-length cuts of different parts stand apart, a longer cut between.
C8_Witness ==
    /\ Returning /\ Len(bins) >= 2
    /\ \E p \in 1..Len(args.cuts) : \E q \in (p + 2)..Len(args.cuts) :
          /\ NumEq(args.cuts[p].value, args.cuts[q].value)
          /\ args.cuts[p].partName # args.cuts[q].partName
          /\ Lt(args.cuts[p].value, args.cuts[p + 1].value)

\* C9: each iteration of solveCuts's loop takes the longest cut not yet
\* placed; if some bin has remainder >= its length, it is appended to
\* exactly the bins whose remainder is the smallest such remainder and no
\* bin is added; otherwise one new bin holding only this cut is appended
\* and no other bin changes.
C9_PlacementStep ==
    [][ (pc = "solveCuts" /\ n' = n + 1) =>
          LET c == cuts[n + 1]
              rem(x) == getBinRemainder(bins[x], lumberLen)
              fit == {x \in 1..Len(bins) : Ge(rem(x), c.value)}
              best == {x \in fit : \A y \in fit : Le(rem(x), rem(y))}
          IN  /\ \A y \in (n + 2)..Len(cuts) : Ge(c.value, cuts[y].value)
              /\ IF fit # {}
                 THEN /\ Len(bins') = Len(bins)
                      /\ best # {}
                      /\ \A x \in 1..Len(bins) :
                            bins'[x] = IF x \in best THEN Append(bins[x], c) ELSE bins[x]
                 ELSE bins' = Append(bins, <<c>>)
      ]_vars

\* C9's case: the cut just placed went to two bins that tied, after an
\* earlier cut had opened a new bin.
C9_Witness ==
    /\ pc = "solveCuts" /\ n >= 2
    /\ Occurrences(bins, cuts[n]) >= 2
    /\ Len(bins) > Len(InitialBins(args.bins))

\* C10: at each i of the merge loop the bins from i on are in descending
\* order of used length; at most one merge happens, into bin i, of the
\* first j > i whose remainder >= bin i's used length, which is a most-full
\* such bin; bin i becomes bin i followed by bin j, bin j is removed, and
\* every other bin keeps its content and its place among the others.
C10_MergeStep ==
    [][ (pc = "merge" /\ i' = i + 1) =>
          LET len == inputs.effectiveLumberLen
              idx == i + 1
              sumOf(x) == sumCutList(gBins[x])
              cand == {j \in (idx + 1)..Len(gBins) :
                          Ge(getBinRemainder(gBins[j], len), sumOf(idx))}
          IN  /\ \A x \in idx..Len(gBins) : \A y \in (x + 1)..Len(gBins) :
                    Ge(sumOf(x), sumOf(y))
              /\ IF cand = {}
                 THEN gBins' = gBins
                 ELSE LET j0 == CHOOSE j \in cand : \A j1 \in cand : j <= j1
                      IN  /\ \A j \in cand : Ge(sumOf(j0), sumOf(j))
                          /\ Len(gBins') = Len(gBins) - 1
                          /\ \A x \in 1..Len(gBins') :
                                gBins'[x] = IF x = idx THEN gBins[idx] \o gBins[j0]
                                            ELSE IF x < j0 THEN gBins[x]
                                            ELSE gBins[x + 1]
      ]_vars

\* C10's case: the first iteration has merged a later bin into bin 0 while
\* another bin further on could have taken bin 0 as well.
C10_Witness ==
    /\ pc = "merge" /\ i = 1 /\ Len(gBins) >= 2
    /\ ValidRequest
    /\ Cardinality(PartNamesIn(gBins[1])) = 2
    /\ LET first == SelectSeq(gBins[1], LAMBDA c : c.partName = gBins[1][1].partName)
       IN  \E j \in 2..Len(gBins) :
              Ge(getBinRemainder(gBins[j], inputs.effectiveLumberLen), sumCutList(first))

\* Bin a is the beginning of bin b.
IsPrefix(a, b) == Len(a) <= Len(b) /\ SubSeq(b, 1, Len(a)) = a

\* C11: bins are append-only during solveCuts.  From one iteration of the
\* loop to the next no bin is removed or moves and every bin is the
\* beginning of what it is afterwards; so at every point of the run the bin
\* at each index of the bins passed in extends the bin passed in, a bin
\* that took no further cut included.
C11_BinsAppendOnly ==
    /\ [][ (pc = "solveCuts" /\ pc' = "solveCuts") =>
              /\ Len(bins') >= Len(bins)
              /\ \A x \in 1..Len(bins) : IsPrefix(bins[x], bins'[x])
        ]_vars
    /\ [](pc = "solveCuts" =>
              /\ Len(bins) >= Len(args.bins.list)
              /\ \A k \in 1..Len(args.bins.list) :
                    IsPrefix(args.bins.list[k], bins[k]))

\* C11's case: the miscellaneous packing of groupedSolve returns, one of
\* the bins it was given took a cut and another, not empty, took none.
C11_Witness ==
    /\ Returning /\ ctx = "misc" /\ ValidRequest
    /\ \E k \in 1..Len(args.bins.list) :
          bins[k] = args.bins.list[k] /\ bins[k] # <<>>
    /\ \E k \in 1..Len(args.bins.list) :
          Len(bins[k]) > Len(args.bins.list[k])

\* The cuts held by the bins.
CutsIn(bs) == UNION {{bs[x][y] : y \in 1..Len(bs[x])} : x \in 1..Len(bs)}

\* The cuts of a request: one per value of every named part and of the
\* ungrouped list.
RequestCuts ==
    UNION {{Cut(inputs.cuts[x].list[y], inputs.cuts[x].key, y) :
                y \in 1..Len(inputs.cuts[x].list)} : x \in 1..Len(inputs.cuts)}

\* C12: no cut is lost.  For a valid request every cut of every named part
\* and of the ungrouped list is in at least one bin of groupedSolve's final
\* bins and in at least one bin of naiveSolve's solution, ties of the
\* remainders included; and an iteration of the merge loop keeps the number
\* of times each cut is held by the bins.
C12_NoCutLost ==
    /\ []((pc = "done" /\ ValidRequest) =>
              \A c \in RequestCuts :
                  Occurrences(gBins, c) >= 1 /\ Occurrences(solution, c) >= 1)
    /\ [][ (pc = "merge" /\ i' = i + 1 /\ ValidRequest) =>
              \A c \in CutsIn(gBins) \cup CutsIn(gBins') :
                  Occurrences(gBins', c) = Occurrences(gBins, c)
        ]_vars

\* C12's case: both strategies are through; groupedSolve has merged the
\* bins of two named parts, there are ungrouped cuts, and a tie of the
\* remainders has put a cut in two bins of naiveSolve's solution.
C12_Witness ==
    /\ pc = "done" /\ ValidRequest
    /\ ValuesOf(inputs.cuts, "false") # <<>>
    /\ \E x \in 1..Len(gBins) : Cardinality(PartNamesIn(gBins[x]) \ {"false"}) >= 2
    /\ \E c \in RequestCuts : Occurrences(solution, c) >= 2

====
